---------------------------- MODULE Spec2Model ----------------------------
(***************************************************************************)
(* Keg / deposit / equipment ledger of livraison-et-suivi-futs.            *)
(*                                                                         *)
(* The model follows src/app.py (the Flask handlers movement_new and       *)
(* movement_delete, the note codec, the SQL balance expressions) and       *)
(* src/utils.py (the card summaries, the inventory helpers).               *)
(*                                                                         *)
(* Conventions of the model                                                *)
(*  - money is an integer number of cents (68 EUR = 6800, 0.10 EUR = 10);  *)
(*    float rounding is not modelled;                                      *)
(*  - a text (note, comment) is a sequence of lexical tokens: words,       *)
(*    " ", ";", "=", the separator "||EQ|", "-", and decimal digits;       *)
(*  - an optional value (absent form field, SQL NULL) is None = <<>> or    *)
(*    Some(v) = <<v>>;                                                     *)
(*  - strings are written in ASCII (accents dropped);                     *)
(*  - the stored tables are the fields of the record db; rows of products, *)
(*    variants are sequences indexed by their id, movements is a sequence  *)
(*    of rows in id order (SQLite rowid: max(id)+1).                       *)
(***************************************************************************)
EXTENDS Integers, Sequences, FiniteSets, TLC

VARIABLES db, last, tx

vars == <<db, last, tx>>

---------------------------------------------------------------------------
(* Bounds of the model *)

NumClients == 2

MaxOps == 3

MaxTime == 2

(* longest human comment, in tokens, and largest equipment count of a note *)
MaxCommentLen == 3

MaxCount == 12

---------------------------------------------------------------------------
(* Program constants *)

None == <<>>

Some(v) == <<v>>

IsNone(x) == x = <<>>

Coalesce(x, dflt) == IF x = <<>> THEN dflt ELSE x[1]

EQ_KEYS == <<"tireuse", "co2", "comptoir", "tonnelle", "ecocup">>

EqKeySet == {EQ_KEYS[i] : i \in 1..Len(EQ_KEYS)}

ECOCUP_WASH_NAME == "Ecocup lavage"

ECOCUP_LOSS_NAME == "Ecocup perdu"

ECOCUP_WASH_PRICE == 10

ECOCUP_LOSS_PRICE == 100

FORM_DEFAULT_DEPOSIT == 3000

DEFAULT_DEPOSIT == 3000

MOV_TYPES == {"OUT", "IN", "DEFECT", "FULL"}

SEP == "||EQ|"

---------------------------------------------------------------------------
(* Text helpers: Python str.strip, str.split, str.lower, int(), str(int) *)

Max(a, b) == IF a >= b THEN a ELSE b

Min(a, b) == IF a <= b THEN a ELSE b

RECURSIVE LStrip(_)
LStrip(s) ==
    IF s # <<>> /\ Head(s) = " " THEN LStrip(Tail(s)) ELSE s

RECURSIVE RStrip(_)
RStrip(s) ==
    IF s # <<>> /\ s[Len(s)] = " " THEN RStrip(SubSeq(s, 1, Len(s) - 1)) ELSE s

Strip(s) == RStrip(LStrip(s))

(* index of the first occurrence of token t in s, 0 when absent *)
IndexOf(s, t) ==
    IF \E i \in 1..Len(s) : s[i] = t
    THEN CHOOSE i \in 1..Len(s) : s[i] = t /\ \A j \in 1..(i - 1) : s[j] # t
    ELSE 0

Contains(s, t) == IndexOf(s, t) # 0

(* s.split(t, 1) when t occurs in s: <<before, after>> *)
Split1(s, t) ==
    LET i == IndexOf(s, t)
    IN  <<SubSeq(s, 1, i - 1), SubSeq(s, i + 1, Len(s))>>

(* s.split(t): all the pieces, empty ones included *)
RECURSIVE SplitAll(_, _)
SplitAll(s, t) ==
    IF ~Contains(s, t) THEN <<s>>
    ELSE <<Split1(s, t)[1]>> \o SplitAll(Split1(s, t)[2], t)

LowerTok(t) ==
    CASE t = "TIREUSE" -> "tireuse"
      [] t = "CO2" -> "co2"
      [] t = "Ecocup" -> "ecocup"
      [] t = "||EQ|" -> "||eq|"
      [] OTHER -> t

LowerText(s) == [i \in 1..Len(s) |-> LowerTok(s[i])]

DigitToks == <<"0", "1", "2", "3", "4", "5", "6", "7", "8", "9">>

IsDigit(t) == \E i \in 1..10 : DigitToks[i] = t

DigitVal(t) == (CHOOSE i \in 1..10 : DigitToks[i] = t) - 1

(* str(n) for an integer n *)
RECURSIVE NatToText(_)
NatToText(n) ==
    IF n < 10 THEN <<DigitToks[n + 1]>>
    ELSE NatToText(n \div 10) \o <<DigitToks[(n % 10) + 1]>>

IntToText(n) == IF n < 0 THEN <<"-">> \o NatToText(-n) ELSE NatToText(n)

RECURSIVE DigitsValue(_, _)
DigitsValue(s, acc) ==
    IF s = <<>> THEN acc
    ELSE DigitsValue(Tail(s), 10 * acc + DigitVal(Head(s)))

AllDigits(s) == s # <<>> /\ \A i \in 1..Len(s) : IsDigit(s[i])

(* int(text) wrapped in try/except giving 0: both decoders do this *)
IntOrZero(text) ==
    LET s == Strip(text)
    IN  IF AllDigits(s) THEN DigitsValue(s, 0)
        ELSE IF s # <<>> /\ Head(s) = "-" /\ AllDigits(Tail(s))
             THEN 0 - DigitsValue(Tail(s), 0)
        ELSE IF s # <<>> /\ Head(s) = "+" /\ AllDigits(Tail(s))
             THEN DigitsValue(Tail(s), 0)
        ELSE 0

RECURSIVE JoinText(_, _)
JoinText(parts, t) ==
    IF parts = <<>> THEN <<>>
    ELSE IF Len(parts) = 1 THEN parts[1]
    ELSE parts[1] \o <<t>> \o JoinText(Tail(parts), t)

---------------------------------------------------------------------------
(* Equipment / cup codec, src/app.py *)

EqZero == [k \in EqKeySet |-> 0]

(* the parts with every key written, a count of 0 included *)
RECURSIVE PackPartsAll(_, _)
PackPartsAll(eq_dict, i) ==
    IF i > Len(EQ_KEYS) THEN <<>>
    ELSE <<(<<EQ_KEYS[i], "=">> \o IntToText(eq_dict[EQ_KEYS[i]]))>>
         \o PackPartsAll(eq_dict, i + 1)

RECURSIVE PackParts(_, _)
PackParts(eq_dict, i) ==
    IF i > Len(EQ_KEYS) THEN <<>>
    ELSE LET k == EQ_KEYS[i]
             v == eq_dict[k]
         IN  (IF v # 0 THEN <<(<<k, "=">> \o IntToText(v))>> ELSE <<>>)
             \o PackParts(eq_dict, i + 1)

pack_equipment(notes_text, eq_dict) ==
    LET clean == Strip(notes_text)
        parts == PackParts(eq_dict, 1)
    IN  IF parts # <<>>
        THEN Strip(clean \o <<" ">> \o <<SEP>> \o JoinText(parts, ";"))
        ELSE clean

RECURSIVE UnpackPairs(_, _)
UnpackPairs(pairs, eq) ==
    IF pairs = <<>> THEN eq
    ELSE LET pair == Head(pairs)
         IN  IF Contains(pair, "=")
             THEN LET k == LowerText(Strip(Split1(pair, "=")[1]))
                      val == IntOrZero(Split1(pair, "=")[2])
                  IN  IF Len(k) = 1 /\ k[1] \in EqKeySet
                      THEN UnpackPairs(Tail(pairs), [eq EXCEPT ![k[1]] = val])
                      ELSE UnpackPairs(Tail(pairs), eq)
             ELSE UnpackPairs(Tail(pairs), eq)

(* the decoder that keeps the human part as split, blanks included *)
unpack_equipment_unstripped(notes_text) ==
    IF notes_text = <<>> THEN [eq |-> EqZero, human |-> <<>>]
    ELSE IF Contains(notes_text, SEP)
         THEN [eq |-> UnpackPairs(SplitAll(Strip(Split1(notes_text, SEP)[2]), ";"), EqZero),
               human |-> Split1(notes_text, SEP)[1]]
         ELSE [eq |-> EqZero, human |-> Strip(notes_text)]

unpack_equipment(notes_text) ==
    IF notes_text = <<>> THEN [eq |-> EqZero, human |-> <<>>]
    ELSE IF Contains(notes_text, SEP)
         THEN LET human == Strip(Split1(notes_text, SEP)[1])
                  eqpart == Split1(notes_text, SEP)[2]
              IN  [eq |-> UnpackPairs(SplitAll(Strip(eqpart), ";"), EqZero),
                   human |-> human]
         ELSE [eq |-> EqZero, human |-> Strip(notes_text)]

---------------------------------------------------------------------------
(* Note decoder of the card summaries, src/utils.py *)

EquipmentKeys == {"tireuse", "co2", "comptoir", "tonnelle"}

EquipmentZero == [k \in EquipmentKeys |-> 0]

RECURSIVE ParseParts(_, _)
ParseParts(parts, eq) ==
    IF parts = <<>> THEN eq
    ELSE LET p == Strip(Head(parts))
         IN  IF p # <<>> /\ Contains(p, "=")
             THEN LET k == LowerText(Strip(Split1(p, "=")[1]))
                      val == IntOrZero(Split1(p, "=")[2])
                  IN  IF Len(k) = 1 /\ k[1] \in EquipmentKeys
                      THEN ParseParts(Tail(parts), [eq EXCEPT ![k[1]] = val])
                      ELSE ParseParts(Tail(parts), eq)
             ELSE ParseParts(Tail(parts), eq)

parse_equipment(notes) ==
    IF notes = <<>> THEN EquipmentZero
    ELSE ParseParts(SplitAll(notes, ";"), EquipmentZero)

---------------------------------------------------------------------------
(* Stored tables.  db.clients: set of ids; db.products[id] = [name];       *)
(* db.variants[id] = [product_id, size_l, price_ttc]; db.movements: rows   *)
(* in id order; db.inventory: variant id -> qty for the rows that exist;   *)
(* db.reorder_rules: variant id -> min_qty for the rules that exist.       *)

EmptyDb ==
    [clients |-> {}, products |-> <<>>, variants |-> <<>>,
     movements |-> <<>>, inventory |-> [v \in {} |-> 0],
     reorder_rules |-> [v \in {} |-> 0]]

(* DEFAULT_PRODUCTS / DEFAULT_VARIANTS: the head of the seeded catalogue *)
DEFAULT_PRODUCTS == <<"Coreff Blonde">>

DEFAULT_VARIANTS == <<<<"Coreff Blonde", 20, 6800>>, <<"Coreff Blonde", 30, 10200>>>>

(* str.lower() on the product names the model uses.  "^E" and "^e" stand   *)
(* for the capital and the small e with diaeresis.                         *)
LowerName(n) ==
    CASE n = "Coreff Blonde" -> "coreff blonde"
      [] n = "COREFF BLONDE" -> "coreff blonde"
      [] n = "Materiel seul" -> "materiel seul"
      [] n = "Ecocup lavage" -> "ecocup lavage"
      [] n = "Ecocup perdu" -> "ecocup perdu"
      [] n = "Cidre Breton" -> "cidre breton"
      [] n = "BIERE NO^EL" -> "biere no^el"
      [] OTHER -> n

(* func.lower(Product.name) of the default SQLite database: lower() folds  *)
(* the ASCII letters only, a capital letter outside ASCII is kept          *)
SqlLower(n) ==
    CASE n = "BIERE NO^EL" -> "biere no^El"
      [] OTHER -> LowerName(n)

(* Product.query.filter(func.lower(Product.name) == lname).first(): id or 0 *)
FindProduct(d, lname) ==
    IF \E i \in 1..Len(d.products) : SqlLower(d.products[i].name) = lname
    THEN CHOOSE i \in 1..Len(d.products) :
            /\ SqlLower(d.products[i].name) = lname
            /\ \A j \in 1..(i - 1) : SqlLower(d.products[j].name) # lname
    ELSE 0

(* Variant.query.filter_by(product_id=pid, size_l=size).first(): id or 0 *)
FindVariant(d, pid, size) ==
    IF \E i \in 1..Len(d.variants) :
          d.variants[i].product_id = pid /\ d.variants[i].size_l = size
    THEN CHOOSE i \in 1..Len(d.variants) :
            /\ d.variants[i].product_id = pid /\ d.variants[i].size_l = size
            /\ \A j \in 1..(i - 1) :
                  ~(d.variants[j].product_id = pid /\ d.variants[j].size_l = size)
    ELSE 0

AddProduct(d, name) ==
    [d EXCEPT !.products = Append(@, [name |-> name])]

AddVariant(d, pid, size, price) ==
    [d EXCEPT !.variants =
        Append(@, [product_id |-> pid, size_l |-> size, price_ttc |-> price])]

(* find-or-create of a product by case-insensitive name: <<db, id>> *)
GetOrCreateProduct(d, name) ==
    LET pid == FindProduct(d, LowerName(name))
    IN  IF pid # 0 THEN <<d, pid>>
        ELSE <<AddProduct(d, name), Len(d.products) + 1>>

RECURSIVE SeedVariants(_, _)
SeedVariants(d, i) ==
    IF i > Len(DEFAULT_VARIANTS) THEN d
    ELSE LET row == DEFAULT_VARIANTS[i]
             pid == FindProduct(d, LowerName(row[1]))
         IN  SeedVariants(AddVariant(d, pid, row[2], Some(row[3])), i + 1)

RECURSIVE SeedProducts(_, _)
SeedProducts(d, i) ==
    IF i > Len(DEFAULT_PRODUCTS) THEN d
    ELSE SeedProducts(AddProduct(d, DEFAULT_PRODUCTS[i]), i + 1)

seed_if_empty(d) ==
    IF d.clients = {} /\ d.products = <<>> /\ d.variants = <<>>
    THEN SeedVariants(SeedProducts([d EXCEPT !.clients = 1..NumClients], 1), 1)
    ELSE d

(* returns [db, vid, committed]: the commit happens only when the variant is created *)
get_or_create_equipment_placeholder(d) ==
    LET gp == GetOrCreateProduct(d, "Materiel seul")
        d1 == gp[1]
        vid == FindVariant(d1, gp[2], 0)
    IN  IF vid # 0 THEN [db |-> d1, vid |-> vid, committed |-> FALSE]
        ELSE [db |-> AddVariant(d1, gp[2], 0, Some(0)),
              vid |-> Len(d1.variants) + 1, committed |-> TRUE]

(* one of the two service variants: created at the fixed price, or its price reset *)
EnsureServiceVariant(d, name, price) ==
    LET gp == GetOrCreateProduct(d, name)
        d1 == gp[1]
        vid == FindVariant(d1, gp[2], 0)
    IN  IF vid = 0
        THEN <<AddVariant(d1, gp[2], 0, Some(price)), Len(d1.variants) + 1>>
        ELSE IF d1.variants[vid].price_ttc # Some(price)
             THEN <<[d1 EXCEPT !.variants[vid].price_ttc = Some(price)], vid>>
             ELSE <<d1, vid>>

(* returns [db, wash, loss]; the function ends with db.session.commit() *)
get_or_create_ecocup_variants(d) ==
    LET w == EnsureServiceVariant(d, ECOCUP_WASH_NAME, ECOCUP_WASH_PRICE)
        l == EnsureServiceVariant(w[1], ECOCUP_LOSS_NAME, ECOCUP_LOSS_PRICE)
    IN  [db |-> l[1], wash |-> w[2], loss |-> l[2]]

ensure_catalog_fixes(d) ==
    get_or_create_ecocup_variants(get_or_create_equipment_placeholder(d).db).db

ensure_data_consistency(d) ==
    [d EXCEPT !.movements =
        [i \in 1..Len(@) |->
            [@[i] EXCEPT !.unit_price_ttc = IF @ = None THEN Some(0) ELSE @,
                         !.deposit_per_keg = IF @ = None THEN Some(0) ELSE @]]]

(* create_app: db.create_all(), seed_if_empty(), the two ensure_* passes *)
create_app(d) == ensure_data_consistency(ensure_catalog_fixes(seed_if_empty(d)))

---------------------------------------------------------------------------
(* Ledger rows and the SQL expressions of src/app.py *)

RECURSIVE SumOver(_, _)
SumOver(F(_), n) == IF n = 0 THEN 0 ELSE F(n) + SumOver(F, n - 1)

ClientMovements(d, client_id) ==
    SelectSeq(d.movements, LAMBDA m : m.client_id = client_id)

(* Variant.size_l of the row's variant; NULL (here 0) when the outer join finds none *)
SizeOf(d, m) ==
    IF m.variant_id \in 1..Len(d.variants) THEN d.variants[m.variant_id].size_l ELSE 0

BEER_VALUE_EXPR(m) ==
    CASE m.type = "OUT" -> m.qty * Coalesce(m.unit_price_ttc, 0)
      [] m.type = "DEFECT" -> (0 - m.qty) * Coalesce(m.unit_price_ttc, 0)
      [] OTHER -> 0

DEPOSIT_VALUE_EXPR(m) ==
    CASE m.type = "OUT" -> m.qty * Coalesce(m.deposit_per_keg, 0)
      [] m.type = "IN" -> (0 - m.qty) * Coalesce(m.deposit_per_keg, 0)
      [] m.type = "DEFECT" -> (0 - m.qty) * Coalesce(m.deposit_per_keg, 0)
      [] OTHER -> 0

STOCK_EXPR(m) ==
    CASE m.type = "OUT" -> m.qty
      [] m.type = "IN" -> 0 - m.qty
      [] m.type = "DEFECT" -> 0 - m.qty
      [] OTHER -> 0

(* net count of one key over a client's notes, before the clamp *)
EqNet(d, client_id, k) ==
    LET ms == ClientMovements(d, client_id)
        Term(i) == (IF ms[i].type = "OUT" THEN 1 ELSE -1)
                   * unpack_equipment(ms[i].notes).eq[k]
    IN  SumOver(Term, Len(ms))

sum_equipment_for_client(d, client_id) ==
    [k \in EqKeySet |-> Max(EqNet(d, client_id, k), 0)]

---------------------------------------------------------------------------
(* movement_new, src/app.py.  A request r is the posted form:              *)
(*  client_id (0: absent), custom_name ("": absent), custom_size_l,        *)
(*  variant_id (0: absent), eq, qty, type, when (the resolved timestamp,   *)
(*  0: an unparseable date), unit_price_raw, deposit_per_keg (optional),   *)
(*  notes (the human comment).                                             *)

NextMovementId(d) ==
    IF d.movements = <<>> THEN 1 ELSE d.movements[Len(d.movements)].id + 1

(* lines 381-398: the off-catalogue variant found (vid # 0) or created in  *)
(* the tables d1 that hold its product pid                                 *)
ResolveCustom(d1, pid, vid, r, unit_price) ==
    IF vid = 0
    THEN [ok |-> TRUE,
          db |-> AddVariant(d1, pid, r.custom_size_l, Some(unit_price)),
          variant_id |-> Len(d1.variants) + 1,
          unit_price |-> unit_price]
    ELSE IF unit_price # 0 /\ d1.variants[vid].price_ttc # Some(unit_price)
    THEN [ok |-> TRUE,
          db |-> [d1 EXCEPT !.variants[vid].price_ttc = Some(unit_price)],
          variant_id |-> vid, unit_price |-> unit_price]
    ELSE [ok |-> TRUE, db |-> d1, variant_id |-> vid, unit_price |-> unit_price]

ResolveProduct(gp, r) ==
    ResolveCustom(gp[1], gp[2], FindVariant(gp[1], gp[2], r.custom_size_l), r,
                  Coalesce(r.unit_price_raw, 0))

(* lines 385-389 with Product.name unique (models.py line 29): the lookup  *)
(* finds no product although one has exactly this name, so the INSERT      *)
(* raises and the request ends in an error with nothing stored             *)
NameTaken(d, name) ==
    /\ FindProduct(d, LowerName(name)) = 0
    /\ \E i \in 1..Len(d.products) : d.products[i].name = name

(* lines 373-405: catalogue variant, off-catalogue find-or-create, or none *)
ResolveVariant(d, r) ==
    IF r.custom_name # ""
    THEN IF r.custom_size_l <= 0
         THEN [ok |-> FALSE, db |-> d, variant_id |-> 0, unit_price |-> 0]
         ELSE IF NameTaken(d, r.custom_name)
         THEN [ok |-> FALSE, db |-> d, variant_id |-> 0, unit_price |-> 0]
         ELSE ResolveProduct(GetOrCreateProduct(d, r.custom_name), r)
    ELSE IF r.variant_id # 0 /\ r.variant_id \notin 1..Len(d.variants)
         THEN [ok |-> FALSE, db |-> d, variant_id |-> 0, unit_price |-> 0]
         ELSE [ok |-> TRUE, db |-> d, variant_id |-> r.variant_id, unit_price |-> 0]

(* lines 439-450: the price and the deposit stored on the movement *)
(* the price rule without the catalogue fallback: an omitted price is 0 *)
StoredUnitPriceNoCatalog(r, variant, custom_price) ==
    IF r.qty = 0 THEN 0 ELSE Coalesce(r.unit_price_raw, 0)

StoredUnitPrice(r, variant, custom_price) ==
    IF r.qty = 0 THEN 0
    ELSE IF r.custom_name # "" THEN Coalesce(r.unit_price_raw, custom_price)
    ELSE Coalesce(r.unit_price_raw, Coalesce(variant.price_ttc, 0))

(* the deposit rule with the default kept for deliveries only *)
StoredDepositOutOnly(r) ==
    IF r.qty = 0 THEN 0
    ELSE IF r.type = "OUT" THEN Coalesce(r.deposit_per_keg, FORM_DEFAULT_DEPOSIT)
    ELSE Coalesce(r.deposit_per_keg, 0)

StoredDeposit(r) ==
    IF r.qty = 0 THEN 0 ELSE Coalesce(r.deposit_per_keg, FORM_DEFAULT_DEPOSIT)

(* lines 455-457: kegs of one variant held by the client (variants of size > 0) *)
InPlaceVariant(d, client_id, variant_id) ==
    LET ms == SelectSeq(d.movements,
                 LAMBDA m : /\ m.client_id = client_id
                            /\ m.variant_id = variant_id
                            /\ SizeOf(d, m) > 0)
        Term(i) == STOCK_EXPR(ms[i])
    IN  SumOver(Term, Len(ms))

(* lines 452-469: the "no over-return" validations *)
ReturnAllowed(d, r, variant_id, any_equipment) ==
    \/ r.type \notin {"IN", "DEFECT"}
    \/ /\ r.qty > 0 => r.qty <= Max(InPlaceVariant(d, r.client_id, variant_id), 0)
       /\ any_equipment =>
             \A k \in EqKeySet \ {"ecocup"} :
                 r.eq[k] <= sum_equipment_for_client(d, r.client_id)[k]

Rejected(d) == [ok |-> FALSE, sess |-> d, dur |-> d, mid |-> 0]

AnyEquipment(r) == \E k \in EqKeySet : r.eq[k] > 0

(* lines 471-486: main_m, added to the session s1 and flushed *)
MainMovement(s1, r, vid, custom_price) ==
    [id |-> NextMovementId(s1),
     created_at |-> r.when,
     type |-> r.type,
     client_id |-> r.client_id,
     variant_id |-> vid,
     qty |-> r.qty,
     unit_price_ttc |-> Some(StoredUnitPrice(r, s1.variants[vid], custom_price)),
     deposit_per_keg |-> Some(StoredDeposit(r)),
     notes |-> pack_equipment(Strip(r.notes), r.eq)]

AddMain(s1, dur, main_m) ==
    [ok |-> TRUE,
     sess |-> [s1 EXCEPT !.movements = Append(@, main_m)],
     dur |-> dur,
     mid |-> main_m.id]

(* lines 429-486 on the session s1 with the variant vid; dur is what the   *)
(* helpers committed on the way                                            *)
MainChecked(s1, dur, r, vid, custom_price) ==
    IF r.when = 0 THEN Rejected(dur)
    ELSE IF ~ReturnAllowed(s1, r, vid, AnyEquipment(r)) THEN Rejected(dur)
    ELSE AddMain(s1, dur, MainMovement(s1, r, vid, custom_price))

MainPlaced(d, ph, r, custom_price) ==
    MainChecked(ph.db, IF ph.committed THEN ph.db ELSE d, r, ph.vid, custom_price)

MainResolved(d, rv, r) ==
    IF ~rv.ok THEN Rejected(d)
    ELSE IF rv.variant_id = 0 /\ ~AnyEquipment(r) THEN Rejected(d)
    ELSE IF AnyEquipment(r) /\ rv.variant_id = 0
    THEN MainPlaced(d, get_or_create_equipment_placeholder(rv.db), r, rv.unit_price)
    ELSE MainPlaced(d, [db |-> rv.db, vid |-> rv.variant_id, committed |-> FALSE],
                    r, rv.unit_price)

(* lines 363-486: up to db.session.add(main_m); flush().  sess is the      *)
(* session's view, dur what is committed so far, mid the id of main_m.     *)
movement_new_main(d, r) ==
    IF r.client_id = 0 THEN Rejected(d)
    ELSE MainResolved(d, ResolveVariant(d, r), r)

WashNote(returned, mid) ==
    <<"Lavage Ecocup", " ">> \o IntToText(returned)
        \o <<"u", " ", "(lie au mouvement", " ", "#">> \o IntToText(mid) \o <<")">>

LossNote(missing, mid) ==
    <<"Ecocup manquant", " ">> \o IntToText(missing)
        \o <<"u", " ", "(lie au mouvement", " ", "#">> \o IntToText(mid) \o <<")">>

ExtraTxt(returned, missing) ==
    LET extra == (IF returned > 0 THEN <<IntToText(returned) \o <<" ", "laves">>>> ELSE <<>>)
                 \o (IF missing > 0 THEN <<IntToText(missing) \o <<" ", "manquants">>>> ELSE <<>>)
        RECURSIVE CommaJoin(_)
        CommaJoin(ps) == IF ps = <<>> THEN <<>>
                         ELSE IF Len(ps) = 1 THEN ps[1]
                         ELSE ps[1] \o <<",", " ">> \o CommaJoin(Tail(ps))
    IN  IF extra # <<>> THEN <<" ", "--", " ">> \o CommaJoin(extra) ELSE <<>>

(* what the client holds when the fees are computed (line 497): main_m is  *)
(* already in the session, so its own note is part of the sum              *)
CurrentEcocup(s, r) == sum_equipment_for_client(s, r.client_id)["ecocup"]

(* lines 496-541: the cup fees of a return and the adjusted main note *)
CupFees(s, r, mid, wash, loss) ==
    LET current_ec == CurrentEcocup(s, r)
        returned == IF r.eq["ecocup"] > current_ec THEN current_ec ELSE r.eq["ecocup"]
        missing == Max(0, current_ec - returned)
        mi == CHOOSE i \in 1..Len(s.movements) : s.movements[i].id = mid
        fee(vid, q, price, note, id) ==
            [id |-> id, created_at |-> s.movements[mi].created_at, type |-> "OUT",
             client_id |-> r.client_id, variant_id |-> vid, qty |-> q,
             unit_price_ttc |-> Some(price), deposit_per_keg |-> Some(0),
             notes |-> note]
        washRows == IF returned > 0
                    THEN <<fee(wash, returned, ECOCUP_WASH_PRICE,
                               WashNote(returned, mid), NextMovementId(s))>>
                    ELSE <<>>
        lossRows == IF missing > 0
                    THEN <<fee(loss, missing, ECOCUP_LOSS_PRICE,
                               LossNote(missing, mid),
                               NextMovementId(s) + Len(washRows))>>
                    ELSE <<>>
        adjusted == IF returned + missing > 0
                    THEN pack_equipment(Strip(r.notes) \o ExtraTxt(returned, missing),
                                        [r.eq EXCEPT !["ecocup"] = returned + missing])
                    ELSE s.movements[mi].notes
    IN  [s EXCEPT !.movements =
            [@ EXCEPT ![mi].notes = adjusted] \o washRows \o lossRows]

(* the cup rules applied whatever the type, a loan included *)
CupFeesOnEveryType(s, r, mid, wash, loss) == CupFees(s, r, mid, wash, loss)

(* lines 491-541: nothing for an OUT (lines 491-493), the cup fees for an  *)
(* IN / DEFECT                                                             *)
movement_new_fees(s, r, mid, wash, loss) ==
    IF r.type \notin {"IN", "DEFECT"} THEN s
    ELSE CupFees(s, r, mid, wash, loss)

(* lines 488-543: the cup rules on the flushed main movement, then the commit *)
movement_new_tail(m, ec, r) ==
    [ok |-> TRUE,
     db |-> movement_new_fees(ec.db, r, m.mid, ec.wash, ec.loss),
     mid |-> m.mid]

movement_new_from(m, r) ==
    IF ~m.ok THEN [ok |-> FALSE, db |-> m.dur, mid |-> 0]
    ELSE movement_new_tail(m, get_or_create_ecocup_variants(m.sess), r)

(* the whole POST handler: the committed tables afterwards *)
movement_new(d, r) == movement_new_from(movement_new_main(d, r), r)

MovementIds(d) == {d.movements[i].id : i \in 1..Len(d.movements)}

(* movement_delete, lines 557-564: the row is removed, nothing else is touched *)
movement_delete(d, movement_id) ==
    [d EXCEPT !.movements = SelectSeq(@, LAMBDA m : m.id # movement_id)]

---------------------------------------------------------------------------
(* Balance engine of src/app.py: the totals of client_detail and the row   *)
(* of index for one client.  A timestamp total is None when no row counts. *)

SumRows(ms, F(_)) ==
    LET Term(i) == F(ms[i]) IN SumOver(Term, Len(ms))

MaxCreatedAt(ms) ==
    IF ms = <<>> THEN None
    ELSE Some(CHOOSE t \in {ms[i].created_at : i \in 1..Len(ms)} :
                 \A i \in 1..Len(ms) : ms[i].created_at <= t)

(* lines 326-337: OUT minus IN/DEFECT over the variants of size > 0 *)
InPlaceExpr(d, m) ==
    CASE m.type = "OUT" /\ SizeOf(d, m) > 0 -> m.qty
      [] m.type \in {"IN", "DEFECT"} /\ SizeOf(d, m) > 0 -> 0 - m.qty
      [] OTHER -> 0

DeliveredExpr(d, m) ==
    IF m.type = "OUT" /\ SizeOf(d, m) > 0 THEN m.qty ELSE 0

(* index, lines 254-266: the equipment on loan of every client, clamped at 0 *)
equipment_by_client(d) ==
    [c \in d.clients \cup {d.movements[i].client_id : i \in 1..Len(d.movements)} |->
        [k \in EqKeySet |-> Max(EqNet(d, c, k), 0)]]

(* the row of index that counts the rows of 0 L variants as kegs too *)
index_row_any_size(d, client_id) ==
    LET ms == ClientMovements(d, client_id)
        Out(m) == IF m.type = "OUT" THEN m.qty ELSE 0
        In(m) == IF m.type \in {"IN", "DEFECT"} THEN m.qty ELSE 0
    IN  [out_qty |-> SumRows(ms, Out), in_qty |-> SumRows(ms, In),
         deposit_in_play |-> SumRows(ms, DEPOSIT_VALUE_EXPR),
         beer_billed_cum |-> SumRows(ms, BEER_VALUE_EXPR)]

(* index, lines 229-252: the keg and money columns of the row of one client *)
index_row(d, client_id) ==
    LET ms == ClientMovements(d, client_id)
        Out(m) == IF m.type = "OUT" /\ SizeOf(d, m) > 0 THEN m.qty ELSE 0
        In(m) == IF m.type \in {"IN", "DEFECT"} /\ SizeOf(d, m) > 0 THEN m.qty ELSE 0
    IN  [out_qty |-> SumRows(ms, Out), in_qty |-> SumRows(ms, In),
         deposit_in_play |-> SumRows(ms, DEPOSIT_VALUE_EXPR),
         beer_billed_cum |-> SumRows(ms, BEER_VALUE_EXPR)]

client_detail(d, client_id) ==
    LET ms == ClientMovements(d, client_id)
        InPlace(m) == InPlaceExpr(d, m)
        Delivered(m) == DeliveredExpr(d, m)
    IN  [beer_billed_cum |-> SumRows(ms, BEER_VALUE_EXPR),
         deposit_in_play |-> SumRows(ms, DEPOSIT_VALUE_EXPR),
         delivered_qty_cum |-> SumRows(ms, Delivered),
         in_place_total |-> SumRows(ms, InPlace),
         equipment_totals |-> sum_equipment_for_client(d, client_id),
         last_delivery_at |->
            MaxCreatedAt(SelectSeq(ms, LAMBDA m : m.type = "OUT")),
         last_pickup_at |->
            MaxCreatedAt(SelectSeq(ms, LAMBDA m : m.type \in {"IN", "DEFECT"}))]

---------------------------------------------------------------------------
(* Balance engine of src/utils.py: the card of a client *)

effective_price(m, v) ==
    IF m.unit_price_ttc # None THEN m.unit_price_ttc ELSE v.price_ttc

effective_deposit(m) ==
    IF m.deposit_per_keg # None THEN m.deposit_per_keg[1] ELSE DEFAULT_DEPOSIT

combine_equipment(dst, src, sign) ==
    [k \in EquipmentKeys |-> dst[k] + sign * src[k]]

(* .order_by(Movement.created_at.asc()): a stable insertion sort *)
RECURSIVE InsertByCreatedAt(_, _)
InsertByCreatedAt(sorted, m) ==
    IF sorted = <<>> THEN <<m>>
    ELSE IF sorted[Len(sorted)].created_at <= m.created_at THEN Append(sorted, m)
    ELSE Append(InsertByCreatedAt(SubSeq(sorted, 1, Len(sorted) - 1), m),
                sorted[Len(sorted)])

RECURSIVE SortFrom(_, _, _)
SortFrom(ms, i, acc) ==
    IF i > Len(ms) THEN acc ELSE SortFrom(ms, i + 1, InsertByCreatedAt(acc, ms[i]))

(* the query without its order_by: the rows as they are stored *)
StorageOrder(ms) == ms

OrderByCreatedAt(ms) == SortFrom(ms, 1, <<>>)

(* the rows the loop of a summary walks: joined with their variant, in date order *)
JoinedRows(d, ms) ==
    OrderByCreatedAt(SelectSeq(ms, LAMBDA m : m.variant_id \in 1..Len(d.variants)))

(* one turn of the loop of summarize_client_for_index, lines 205-224 *)
CardStep(d, acc, m) ==
    LET v == d.variants[m.variant_id]
        price == Coalesce(effective_price(m, v), 0)
        dep == effective_deposit(m)
        eq == parse_equipment(m.notes)
        a1 == [acc EXCEPT !.last_out = IF m.type = "OUT" THEN Some(m.created_at) ELSE @,
                          !.last_in = IF m.type = "IN" THEN Some(m.created_at) ELSE @]
    IN  IF m.type = "OUT"
        THEN [a1 EXCEPT !.beer_eur = @ + m.qty * price,
                        !.deposit_eur = @ + m.qty * dep,
                        !.equipment = combine_equipment(@, eq, 1)]
        ELSE IF m.type \in {"IN", "DEFECT", "FULL"}
        THEN [a1 EXCEPT !.deposit_eur = @ - m.qty * dep,
                        !.equipment = combine_equipment(@, eq, -1)]
        ELSE a1

RECURSIVE CardLoop(_, _, _, _)
CardLoop(d, rows, i, acc) ==
    IF i > Len(rows) THEN acc ELSE CardLoop(d, rows, i + 1, CardStep(d, acc, rows[i]))

TypeSum(ms, t) ==
    LET F(m) == IF m.type = t THEN m.qty ELSE 0 IN SumRows(ms, F)

(* the card computed from the rows ms of one client, as they are stored *)
CardOf(d, ms) ==
    LET kegs == TypeSum(ms, "OUT")
                  - (TypeSum(ms, "IN") + TypeSum(ms, "DEFECT") + TypeSum(ms, "FULL"))
        acc == CardLoop(d, JoinedRows(d, ms), 1,
                        [beer_eur |-> 0, deposit_eur |-> 0, equipment |-> EquipmentZero,
                         last_out |-> None, last_in |-> None])
    IN  [kegs |-> kegs, beer_eur |-> acc.beer_eur, deposit_eur |-> acc.deposit_eur,
         equipment |-> acc.equipment, last_out |-> acc.last_out, last_in |-> acc.last_in]

summarize_client_for_index(d, client_id) == CardOf(d, ClientMovements(d, client_id))

(* client_movements_full, lines 251-257: the joined rows, the latest first *)
client_movements_full(d, client_id) ==
    LET asc == JoinedRows(d, ClientMovements(d, client_id))
    IN  [i \in 1..Len(asc) |-> asc[Len(asc) + 1 - i]]

(* one turn of the loop of summarize_client_detail, lines 267-278 *)
DetailStep(d, acc, m) ==
    LET v == d.variants[m.variant_id]
        price == Coalesce(effective_price(m, v), 0)
        dep == effective_deposit(m)
        eq == parse_equipment(m.notes)
    IN  IF m.type = "OUT"
        THEN [acc EXCEPT !.beer_eur = @ + m.qty * price,
                         !.deposit_eur = @ + m.qty * dep,
                         !.liters_out_cum = @ + m.qty * v.size_l,
                         !.equipment = combine_equipment(@, eq, 1)]
        ELSE IF m.type \in {"IN", "DEFECT", "FULL"}
        THEN [acc EXCEPT !.deposit_eur = @ - m.qty * dep,
                         !.equipment = combine_equipment(@, eq, -1)]
        ELSE acc

RECURSIVE DetailLoop(_, _, _, _)
DetailLoop(d, rows, i, acc) ==
    IF i > Len(rows) THEN acc ELSE DetailLoop(d, rows, i + 1, DetailStep(d, acc, rows[i]))

(* summarize_client_detail, lines 260-312, without the display rows *)
summarize_client_detail(d, client_id) ==
    [kegs |-> TypeSum(ClientMovements(d, client_id), "OUT")
                - (TypeSum(ClientMovements(d, client_id), "IN")
                   + TypeSum(ClientMovements(d, client_id), "DEFECT")
                   + TypeSum(ClientMovements(d, client_id), "FULL"))]
    @@ DetailLoop(d, client_movements_full(d, client_id), 1,
                  [beer_eur |-> 0, deposit_eur |-> 0, equipment |-> EquipmentZero,
                   liters_out_cum |-> 0])

(* get_open_kegs_by_variant, lines 162-182: per variant of the client's    *)
(* rows, OUT - (IN + DEFECT + FULL), clamped at 0                          *)
VariantTypeSum(ms, vid, t) ==
    TypeSum(SelectSeq(ms, LAMBDA m : m.variant_id = vid), t)

get_open_kegs_by_variant(d, client_id) ==
    LET ms == ClientMovements(d, client_id)
    IN  [vid \in {ms[i].variant_id : i \in 1..Len(ms)} |->
            Max(VariantTypeSum(ms, vid, "OUT")
                  - (VariantTypeSum(ms, vid, "IN") + VariantTypeSum(ms, vid, "DEFECT")
                     + VariantTypeSum(ms, vid, "FULL")), 0)]

---------------------------------------------------------------------------
(* Depot inventory helpers of src/utils.py (no handler of src/app.py calls them) *)

InvQty(d, variant_id) ==
    IF variant_id \in DOMAIN d.inventory THEN d.inventory[variant_id] ELSE 0

get_or_create_inventory(d, variant_id) ==
    IF variant_id \in DOMAIN d.inventory THEN d
    ELSE [d EXCEPT !.inventory =
            [v \in (DOMAIN @) \cup {variant_id} |->
                IF v = variant_id THEN 0 ELSE @[v]]]

apply_inventory_effect(d, mtype, variant_id, qty) ==
    IF mtype \notin MOV_TYPES THEN d
    ELSE IF mtype = "OUT"
    THEN [get_or_create_inventory(d, variant_id)
            EXCEPT !.inventory[variant_id] = @ - qty]
    ELSE IF mtype = "IN"
    THEN [get_or_create_inventory(d, variant_id)
            EXCEPT !.inventory[variant_id] = @ + qty]
    ELSE d

(* the reverse that repeats the effect instead of negating it *)
apply_inventory_effect_again(d, mtype, variant_id, qty) ==
    apply_inventory_effect(d, mtype, variant_id, qty)

(* apply_inventory_effect_reverse, lines 106-114 *)
apply_inventory_effect_reverse(d, mtype, variant_id, qty) ==
    IF mtype \notin MOV_TYPES THEN d
    ELSE IF mtype = "OUT"
    THEN [get_or_create_inventory(d, variant_id)
            EXCEPT !.inventory[variant_id] = @ + qty]
    ELSE IF mtype = "IN"
    THEN [get_or_create_inventory(d, variant_id)
            EXCEPT !.inventory[variant_id] = @ - qty]
    ELSE d

(* Product.name.ilike("%ecocup%") or ilike("%gobelet%"), on the names of the model *)
EcocupNamed(name) == LowerName(name) \in {"ecocup lavage", "ecocup perdu"}

(* get_stock_items from variant i on.  The query orders by product name    *)
(* and size, which is the id order for the catalogue of the model.         *)
RECURSIVE StockRows(_, _)
StockRows(d, i) ==
    IF i > Len(d.variants) THEN <<>>
    ELSE (IF EcocupNamed(d.products[d.variants[i].product_id].name) THEN <<>>
          ELSE <<[variant |-> i,
                  qty |-> InvQty(d, i),
                  min_qty |-> IF i \in DOMAIN d.reorder_rules
                              THEN d.reorder_rules[i] ELSE 0]>>)
         \o StockRows(d, i + 1)

get_stock_items(d) == StockRows(d, 1)

(* the tables after get_stock_items from variant i on: line 134 calls      *)
(* get_or_create_inventory for every listed variant, which adds and        *)
(* flushes an Inventory row where none exists                              *)
RECURSIVE StockTouched(_, _)
StockTouched(d, i) ==
    IF i > Len(d.variants) THEN d
    ELSE StockTouched(IF EcocupNamed(d.products[d.variants[i].product_id].name)
                      THEN d ELSE get_or_create_inventory(d, i),
                      i + 1)

AlertOf(row) ==
    [variant |-> row.variant, qty |-> row.qty, min_qty |-> row.min_qty,
     need |-> Max(0, row.min_qty - row.qty)]

AlertRows(hit) == [i \in 1..Len(hit) |-> AlertOf(hit[i])]

compute_reorder_alerts(d) ==
    AlertRows(SelectSeq(get_stock_items(d),
                        LAMBDA row : row.min_qty # 0 /\ row.qty < row.min_qty))

---------------------------------------------------------------------------
(* Posted forms the model draws from *)

KegVariant == 1

(* id of the "Ecocup lavage" service variant in the catalogue of create_app *)
WashVariantId == 4

EqOf(tireuse, co2, ecocup) ==
    [EqZero EXCEPT !["tireuse"] = tireuse, !["co2"] = co2, !["ecocup"] = ecocup]

Shape(custom_name, custom_size_l, variant_id, qty, eq, price, deposit, notes) ==
    [custom_name |-> custom_name, custom_size_l |-> custom_size_l,
     variant_id |-> variant_id, qty |-> qty, eq |-> eq,
     unit_price_raw |-> price, deposit_per_keg |-> deposit, notes |-> notes]

Shapes ==
    { Shape("", 0, KegVariant, 1, EqZero, None, None, <<>>),
      Shape("", 0, KegVariant, 2, EqZero, Some(5000), Some(1000), <<>>),
      Shape("", 0, 0, 0, EqOf(0, 0, 2), None, None, <<>>),
      Shape("", 0, 0, 0, EqOf(0, 0, 1), None, None, <<>>),
      Shape("", 0, 0, 0, EqOf(1, 1, 0), None, None, <<"pret", " ">>),
      Shape("COREFF BLONDE", 20, 0, 1, EqZero, Some(7000), None, <<>>),
      Shape("COREFF BLONDE", 20, 0, 1, EqZero, None, None, <<>>) }

Requests ==
    { [client_id |-> c, type |-> t, when |-> 1] @@ sh :
        c \in 1..NumClients, t \in MOV_TYPES, sh \in Shapes }

NoReq ==
    [client_id |-> 0, type |-> "OUT", when |-> 0]
        @@ Shape("", 0, 0, 0, EqZero, None, None, <<>>)

---------------------------------------------------------------------------
(* State.  db: the committed tables.  tx: the request in flight of the     *)
(* step-by-step specification (idle in Spec).  last: the last operation,   *)
(* its request (of an accepted recording), the id of its main movement,    *)
(* the number n of operations so far, the tables before it (pre),          *)
(* and for a deletion that directly follows the recording of the same      *)
(* movement (undo) the tables before that recording (base).                *)

TxIdle ==
    [pc |-> "idle", req |-> NoReq, sess |-> EmptyDb, pre |-> EmptyDb,
     mid |-> 0, wash |-> 0, loss |-> 0]

Init ==
    /\ db = create_app(EmptyDb)
    /\ tx = TxIdle
    /\ last = [op |-> "start", ok |-> TRUE, req |-> NoReq, mid |-> 0, n |-> 0,
               pre |-> EmptyDb, base |-> EmptyDb, undo |-> FALSE]

(* the tables and the trace of the last operation after a recording *)
Responded(r, res) ==
    /\ db' = res.db
    /\ last' = [op |-> "record", ok |-> res.ok,
                req |-> IF res.ok THEN r ELSE NoReq, mid |-> res.mid,
                n |-> last.n + 1,
                pre |-> db, base |-> db, undo |-> FALSE]

(* POST /movement/new, the whole handler *)
MovementNew(r) ==
    /\ tx.pc = "idle"
    /\ last.n < MaxOps
    /\ Responded(r, movement_new(db, r))
    /\ UNCHANGED tx

(* POST /movement/<id>/delete *)
MovementDelete(movement_id) ==
    /\ tx.pc = "idle"
    /\ last.n < MaxOps
    /\ movement_id \in MovementIds(db)
    /\ db' = movement_delete(db, movement_id)
    /\ LET undo == last.op = "record" /\ last.ok /\ last.mid = movement_id
       IN  last' = [op |-> "delete", ok |-> TRUE, req |-> NoReq, mid |-> movement_id,
                    n |-> last.n + 1, pre |-> db, base |-> IF undo THEN last.pre ELSE db,
                    undo |-> undo]
    /\ UNCHANGED tx

Next ==
    \/ \E r \in Requests : MovementNew(r)
    \/ \E id \in MovementIds(db) : MovementDelete(id)

Spec == Init /\ [][Next]_vars

(* POST /movement/new step by step, with the commits where the code has    *)
(* them.  db is what is committed; tx.sess what the session sees.  A       *)
(* failure (an exception, a refused commit, a killed worker) rolls the     *)
(* session back and leaves db as committed so far.                         *)
TxShapes ==
    { Shape("", 0, KegVariant, 1, EqZero, None, None, <<>>),
      Shape("", 0, 0, 0, EqOf(0, 0, 2), None, None, <<>>),
      Shape("", 0, 0, 0, EqOf(0, 0, 1), None, None, <<>>) }

TxRequests ==
    { [client_id |-> c, type |-> t, when |-> 1] @@ sh :
        c \in 1..NumClients, t \in MOV_TYPES, sh \in TxShapes }

Finished(op, ok, r, mid, pre) ==
    [op |-> op, ok |-> ok, req |-> r, mid |-> mid, n |-> last.n + 1,
     pre |-> pre, base |-> pre, undo |-> FALSE]

Begun(r, m) ==
    /\ db' = m.dur
    /\ IF m.ok
       THEN /\ tx' = [pc |-> "main", req |-> r, sess |-> m.sess, pre |-> db,
                       mid |-> m.mid, wash |-> 0, loss |-> 0]
            /\ UNCHANGED last
       ELSE /\ tx' = TxIdle
            /\ last' = Finished("record", FALSE, NoReq, 0, db)

(* lines 363-486: validations, main_m added and flushed *)
TxBegin(r) ==
    /\ tx.pc = "idle"
    /\ last.n < MaxOps
    /\ Begun(r, movement_new_main(db, r))

EcocupCommitted(ec) ==
    /\ db' = ec.db
    /\ tx' = [tx EXCEPT !.pc = "fees", !.sess = ec.db,
                        !.wash = ec.wash, !.loss = ec.loss]

(* line 489: get_or_create_ecocup_variants, which ends with a commit (line 108) *)
TxEcocupCommit ==
    /\ tx.pc = "main"
    /\ EcocupCommitted(get_or_create_ecocup_variants(tx.sess))
    /\ UNCHANGED last

(* lines 491-541: the cup fees added to the session *)
TxFees ==
    /\ tx.pc = "fees"
    /\ tx' = [tx EXCEPT !.pc = "commit",
                        !.sess = movement_new_fees(tx.sess, tx.req, tx.mid, tx.wash, tx.loss)]
    /\ UNCHANGED <<db, last>>

(* line 543: db.session.commit() *)
TxCommit ==
    /\ tx.pc = "commit"
    /\ db' = tx.sess
    /\ last' = Finished("record", TRUE, tx.req, tx.mid, tx.pre)
    /\ tx' = TxIdle

(* the request dies before its last commit: the session is rolled back *)
TxFail ==
    /\ tx.pc \in {"main", "fees", "commit"}
    /\ last' = Finished("failed", FALSE, tx.req, tx.mid, tx.pre)
    /\ tx' = TxIdle
    /\ UNCHANGED db

NextTx ==
    \/ \E r \in TxRequests : TxBegin(r)
    \/ TxEcocupCommit
    \/ TxFees
    \/ TxCommit
    \/ TxFail
    \/ \E id \in MovementIds(db) : MovementDelete(id)

SpecTx == Init /\ [][NextTx]_vars

(* The same handlers with the posted date varying (deliveries and returns  *)
(* entered after the fact), for the properties about the order of the rows *)
OrderShapes ==
    { Shape("", 0, KegVariant, 1, EqZero, None, None, <<>>),
      Shape("", 0, 0, 0, EqOf(1, 0, 2), None, None, <<>>) }

OrderRequests ==
    { [client_id |-> c, type |-> t, when |-> w] @@ sh :
        c \in 1..NumClients, t \in MOV_TYPES, w \in 1..MaxTime, sh \in OrderShapes }

NextOrder ==
    \/ \E r \in OrderRequests : MovementNew(r)
    \/ \E id \in MovementIds(db) : MovementDelete(id)

SpecOrder == Init /\ [][NextOrder]_vars

(* Recordings only, over forms a client of the HTTP route can post: the   *)
(* type field is free text, the quantity any integer, the client and the  *)
(* variant any id.  With the default SQLite database foreign keys are not *)
(* enforced, so a row of an unknown client is stored as posted.           *)
UnknownType == "PERDU"

UnknownId == 9

FormShapes ==
    { Shape("", 0, KegVariant, 1, EqZero, None, None, <<>>),
      Shape("", 0, KegVariant, 2, EqZero, None, None, <<>>),
      Shape("", 0, KegVariant, -1, EqZero, None, None, <<>>),
      Shape("", 0, KegVariant, 0, EqZero, None, None, <<>>),
      Shape("", 0, UnknownId, 1, EqZero, None, None, <<>>) }

FormRequests ==
    { [client_id |-> c, type |-> t, when |-> 1] @@ sh :
        c \in (1..NumClients) \cup {UnknownId},
        t \in MOV_TYPES \cup {UnknownType},
        sh \in FormShapes }

NextForms == \E r \in FormRequests : MovementNew(r)

SpecForms == Init /\ [][NextForms]_vars

(* Cups lent and returned on several dates *)
CupShapes ==
    { Shape("", 0, 0, 0, EqOf(0, 0, 2), None, None, <<>>),
      Shape("", 0, 0, 0, EqOf(0, 0, 1), None, None, <<>>) }

CupRequests ==
    { [client_id |-> c, type |-> t, when |-> w] @@ sh :
        c \in 1..NumClients, t \in MOV_TYPES, w \in 1..MaxTime, sh \in CupShapes }

NextCups ==
    \/ \E r \in CupRequests : MovementNew(r)
    \/ \E id \in MovementIds(db) : MovementDelete(id)

SpecCups == Init /\ [][NextCups]_vars

(* The depot stock: reorder rules as the table may hold them (seed.py      *)
(* writes the thresholds 5 and 2, the column defaults to 0), stock moved   *)
(* by the inventory helpers of src/utils.py, then the alerts computed.     *)
RuleVariants == {KegVariant, WashVariantId}

MinQtyValues == {0, 2, 5}

StockMoveQty == {1, 3}

(* the last call kind(mtype, variant_id, qty) and the inventory before it; *)
(* base: the inventory before the call that preceded it, when that call    *)
(* was the other function with the same arguments                          *)
StockOp(kind, mtype, variant_id, qty) ==
    [kind |-> kind, mtype |-> mtype, variant_id |-> variant_id, qty |-> qty,
     pre |-> db.inventory,
     base |-> IF /\ kind # "none"
                 /\ tx.op.kind \notin {"none", kind}
                 /\ tx.op.mtype = mtype /\ tx.op.variant_id = variant_id
                 /\ tx.op.qty = qty
              THEN Some(tx.op.pre) ELSE None]

InitStock ==
    /\ \E on \in SUBSET RuleVariants : \E rules \in [on -> MinQtyValues] :
          db = [create_app(EmptyDb) EXCEPT !.reorder_rules = rules]
    /\ last = [op |-> "start", ok |-> TRUE, req |-> NoReq, mid |-> 0, n |-> 0,
               pre |-> EmptyDb, base |-> EmptyDb, undo |-> FALSE]
    /\ tx = [pc |-> "stock", n |-> 0, alerts |-> <<>>,
             op |-> [kind |-> "none", mtype |-> "", variant_id |-> 0, qty |-> 0,
                     pre |-> [v \in {} |-> 0], base |-> None]]

StockMove(mtype, variant_id, qty) ==
    /\ tx.pc = "stock"
    /\ tx.n < MaxOps
    /\ db' = apply_inventory_effect(db, mtype, variant_id, qty)
    /\ tx' = [tx EXCEPT !.n = @ + 1, !.op = StockOp("effect", mtype, variant_id, qty)]
    /\ UNCHANGED last

StockUndo(mtype, variant_id, qty) ==
    /\ tx.pc = "stock"
    /\ tx.n < MaxOps
    /\ db' = apply_inventory_effect_reverse(db, mtype, variant_id, qty)
    /\ tx' = [tx EXCEPT !.n = @ + 1, !.op = StockOp("reverse", mtype, variant_id, qty)]
    /\ UNCHANGED last

ReorderAlerts ==
    /\ tx.pc = "stock"
    /\ tx' = [tx EXCEPT !.pc = "alerts", !.alerts = compute_reorder_alerts(db)]
    /\ db' = StockTouched(db, 1)
    /\ UNCHANGED last

NextStock ==
    \/ \E mtype \in MOV_TYPES \cup {UnknownType}, v \in RuleVariants, q \in StockMoveQty :
          StockMove(mtype, v, q)
    \/ \E mtype \in MOV_TYPES \cup {UnknownType}, v \in RuleVariants, q \in StockMoveQty :
          StockUndo(mtype, v, q)
    \/ ReorderAlerts

SpecStock == InitStock /\ [][NextStock]_vars

(* The note codec on its own: a comment and a mapping of counts are drawn, *)
(* packed as movement_new does (line 472), then unpacked as the views do.  *)
CommentTokens == {"a", " ", ";", "="}

RECURSIVE TextsUpTo(_)
TextsUpTo(n) ==
    IF n = 0 THEN {<<>>}
    ELSE LET shorter == TextsUpTo(n - 1)
         IN  shorter \cup {Append(t, c) : t \in shorter, c \in CommentTokens}

Comments == TextsUpTo(MaxCommentLen) \cup {<<"Tireuse", "=", "3">>}

CountValues == {0, 1, MaxCount}

InitCodec ==
    /\ db = create_app(EmptyDb)
    /\ last = [op |-> "start", ok |-> TRUE, req |-> NoReq, mid |-> 0, n |-> 0,
               pre |-> EmptyDb, base |-> EmptyDb, undo |-> FALSE]
    /\ \E comment \in Comments, counts \in [EqKeySet -> CountValues] :
          tx = [pc |-> "posted", comment |-> comment, counts |-> counts,
                notes |-> <<>>, eq |-> EqZero, human |-> <<>>]

Pack ==
    /\ tx.pc = "posted"
    /\ tx' = [tx EXCEPT !.pc = "stored",
                        !.notes = pack_equipment(tx.comment, tx.counts)]
    /\ UNCHANGED <<db, last>>

Unpack ==
    /\ tx.pc = "stored"
    /\ tx' = [tx EXCEPT !.pc = "shown",
                        !.eq = unpack_equipment(tx.notes).eq,
                        !.human = unpack_equipment(tx.notes).human]
    /\ UNCHANGED <<db, last>>

NextCodec == Pack \/ Unpack

SpecCodec == InitCodec /\ [][NextCodec]_vars

---------------------------------------------------------------------------
(* Two POST /movement/new requests served at the same time, each with its  *)
(* own session on the shared database.  A request reads the balances       *)
(* (lines 452-469), later inserts main_m (line 486) and reaches the commit  *)
(* of line 489 (the writer holds the database from the INSERT to that       *)
(* commit), later adds its fee rows and commits (lines 491-543).  No lock   *)
(* is taken between the reads and the INSERT.  tx holds the two workers.    *)

RaceShapes ==
    { Shape("", 0, KegVariant, 1, EqZero, None, None, <<>>),
      Shape("", 0, 0, 0, EqOf(1, 1, 0), None, None, <<>>) }

(* the recordings that build the ledger before the two requests arrive *)
RaceSetup ==
    { [client_id |-> c, type |-> t, when |-> 1] @@ sh :
        c \in 1..NumClients, t \in {"OUT", "IN"}, sh \in RaceShapes }

(* two returns of the same client on the same variant *)
ReturnPairs ==
    { <<[client_id |-> c, type |-> t1, when |-> 1] @@ sh,
        [client_id |-> c, type |-> t2, when |-> 1] @@ sh>> :
        c \in 1..NumClients, t1 \in {"IN", "DEFECT"}, t2 \in {"IN", "DEFECT"},
        sh \in RaceShapes }

RaceWorker(r) ==
    [pc |-> "check", req |-> r, ok |-> FALSE, main |-> None,
     mid |-> 0, wash |-> 0, loss |-> 0]

(* both requests are received *)
RaceStart(pair) ==
    /\ tx.pc = "idle"
    /\ last.n < MaxOps
    /\ tx' = [pc |-> "race", pre |-> db,
              w |-> [i \in 1..2 |-> RaceWorker(pair[i])]]
    /\ UNCHANGED <<db, last>>

Checked(i, m) ==
    /\ db' = m.dur
    /\ tx' = [tx EXCEPT !.w[i] =
                IF m.ok
                THEN [@ EXCEPT !.pc = "write", !.ok = TRUE,
                               !.main = Some(m.sess.movements[Len(m.sess.movements)])]
                ELSE [@ EXCEPT !.pc = "done"]]
    /\ UNCHANGED last

(* lines 363-484: worker i resolves the variant and validates against the  *)
(* committed tables it reads now; main_m is built, not yet inserted        *)
RaceCheck(i) ==
    /\ tx.pc = "race"
    /\ tx.w[i].pc = "check"
    /\ Checked(i, movement_new_main(db, tx.w[i].req))

(* lines 485-486: the INSERT of main_m, whose id the database assigns then *)
Flushed(d, main_m) ==
    [d EXCEPT !.movements = Append(@, [main_m EXCEPT !.id = NextMovementId(d)])]

Written(i, mid, ec) ==
    /\ db' = ec.db
    /\ tx' = [tx EXCEPT !.w[i].pc = "fees", !.w[i].mid = mid,
                        !.w[i].wash = ec.wash, !.w[i].loss = ec.loss]
    /\ UNCHANGED last

(* lines 485-489: worker i inserts main_m and commits it (line 108) *)
RaceWrite(i) ==
    /\ tx.pc = "race"
    /\ tx.w[i].pc = "write"
    /\ Written(i, NextMovementId(db),
               get_or_create_ecocup_variants(Flushed(db, tx.w[i].main[1])))

(* lines 491-543: worker i adds its fee rows and commits *)
RaceFees(i) ==
    /\ tx.pc = "race"
    /\ tx.w[i].pc = "fees"
    /\ db' = movement_new_fees(db, tx.w[i].req, tx.w[i].mid, tx.w[i].wash, tx.w[i].loss)
    /\ tx' = [tx EXCEPT !.w[i].pc = "done"]
    /\ UNCHANGED last

(* both responses are sent; ok: both requests were accepted *)
RaceEnd ==
    /\ tx.pc = "race"
    /\ \A i \in 1..2 : tx.w[i].pc = "done"
    /\ last' = [op |-> "race", ok |-> \A i \in 1..2 : tx.w[i].ok,
                req |-> NoReq, mid |-> 0, n |-> last.n + 1,
                pre |-> tx.pre, base |-> tx.pre, undo |-> FALSE]
    /\ tx' = TxIdle
    /\ UNCHANGED db

NextRace ==
    \/ \E r \in RaceSetup : MovementNew(r)
    \/ \E pair \in ReturnPairs : RaceStart(pair)
    \/ \E i \in 1..2 : RaceCheck(i)
    \/ \E i \in 1..2 : RaceWrite(i)
    \/ \E i \in 1..2 : RaceFees(i)
    \/ RaceEnd

SpecRace == Init /\ [][NextRace]_vars

---------------------------------------------------------------------------
(* A database written before the columns had defaults: its movements may   *)
(* hold NULL prices and deposits (the "NULL anciens" of the docstring of   *)
(* ensure_data_consistency).  The application starts on it (create_app),   *)
(* then serves recordings and deletions; the deposit helpers are applied   *)
(* to a stored row at any time.  tx.read keeps what the helpers returned.  *)

LegacyRows ==
    { [id |-> 1, created_at |-> 1, type |-> t, client_id |-> 1,
       variant_id |-> KegVariant, qty |-> 1,
       unit_price_ttc |-> p, deposit_per_keg |-> dep, notes |-> <<>>] :
        t \in MOV_TYPES, p \in {None, Some(5000)}, dep \in {None, Some(1000)} }

LegacyShapes ==
    { Shape("", 0, KegVariant, 1, EqZero, None, None, <<>>),
      Shape("", 0, 0, 0, EqOf(0, 0, 1), None, None, <<>>) }

LegacyRequests ==
    { [client_id |-> 1, type |-> t, when |-> 1] @@ sh :
        t \in {"OUT", "IN"}, sh \in LegacyShapes }

InitLegacy ==
    /\ \E m \in LegacyRows :
          db = [seed_if_empty(EmptyDb) EXCEPT !.movements = <<m>>]
    /\ tx = [pc |-> "down", read |-> None]
    /\ last = [op |-> "start", ok |-> TRUE, req |-> NoReq, mid |-> 0, n |-> 0,
               pre |-> EmptyDb, base |-> EmptyDb, undo |-> FALSE]

(* create_app on the existing database *)
Startup ==
    /\ tx.pc = "down"
    /\ db' = create_app(db)
    /\ tx' = [read |-> tx.read] @@ TxIdle
    /\ last' = [last EXCEPT !.op = "startup", !.pre = db, !.base = db]

(* effective_deposit (utils.py) and DEPOSIT_VALUE_EXPR (app.py) on the row i *)
ReadDeposit(i) ==
    /\ i \in 1..Len(db.movements)
    /\ tx' = [tx EXCEPT !.read = Some([row |-> db.movements[i],
                                       effective |-> effective_deposit(db.movements[i]),
                                       value |-> DEPOSIT_VALUE_EXPR(db.movements[i])])]
    /\ UNCHANGED <<db, last>>

NextLegacy ==
    \/ Startup
    \/ \E i \in 1..MaxOps + 1 : ReadDeposit(i)
    \/ \E r \in LegacyRequests : MovementNew(r)
    \/ \E id \in MovementIds(db) : MovementDelete(id)

SpecLegacy == InitLegacy /\ [][NextLegacy]_vars

---------------------------------------------------------------------------
(* Off-catalogue references typed in several spellings, and equipment only *)

CatalogNames == {"COREFF BLONDE", "BIERE NO^EL", "biere no^el"}

CatalogRequests ==
    { [client_id |-> 1, type |-> "OUT", when |-> 1] @@ sh :
        sh \in { Shape(n, size, 0, 1, EqZero, None, None, <<>>) :
                    n \in CatalogNames, size \in {20, 30} }
               \cup { Shape("", 0, 0, 0, EqOf(1, 0, 0), None, None, <<>>) } }

NextCatalog == \E r \in CatalogRequests : MovementNew(r)

SpecCatalog == Init /\ [][NextCatalog]_vars

---------------------------------------------------------------------------
(* The decoder on any stored note: the notes packed from a posted form,    *)
(* and notes written otherwise (typed by hand, older versions): a human    *)
(* part, then or not a block of pairs whose keys may be unknown or in      *)
(* capitals and whose values may be malformed.  tx.raw keeps the parts a   *)
(* drawn note was built from; num is the integer its value text denotes.   *)

RawKeys == {"tireuse", "CO2", "ecocup", "fut"}

RawValues ==
    { [text |-> <<"3">>, num |-> Some(3)],
      [text |-> <<" ", "1", "2", " ">>, num |-> Some(12)],
      [text |-> <<"x">>, num |-> None],
      [text |-> <<>>, num |-> None] }

RawPairs == { [key |-> k, val |-> v] : k \in RawKeys, v \in RawValues }

RawBlocks == {<<>>} \cup { <<p>> : p \in RawPairs } \cup { <<p, q>> : p, q \in RawPairs }

RawHumans == {<<>>, <<" ", "a", " ">>}

RawNotes ==
    { [human |-> h, block |-> TRUE, pairs |-> ps] : h \in RawHumans, ps \in RawBlocks }
    \cup { [human |-> h, block |-> FALSE, pairs |-> <<>>] : h \in RawHumans }

(* the text of the note *)
NoteText(raw) ==
    IF raw.block
    THEN raw.human \o <<SEP>>
         \o JoinText([i \in 1..Len(raw.pairs) |->
                        <<raw.pairs[i].key, "=">> \o raw.pairs[i].val.text], ";")
    ELSE raw.human

InitDecode ==
    /\ db = create_app(EmptyDb)
    /\ last = [op |-> "start", ok |-> TRUE, req |-> NoReq, mid |-> 0, n |-> 0,
               pre |-> EmptyDb, base |-> EmptyDb, undo |-> FALSE]
    /\ \/ \E comment \in RawHumans, counts \in [EqKeySet -> {0, 1}] :
             tx = [pc |-> "posted", comment |-> comment, counts |-> counts,
                   notes |-> <<>>, eq |-> EqZero, human |-> <<>>, raw |-> None]
       \/ \E raw \in RawNotes :
             tx = [pc |-> "stored", comment |-> <<>>, counts |-> EqZero,
                   notes |-> NoteText(raw), eq |-> EqZero, human |-> <<>>,
                   raw |-> Some(raw)]

SpecDecode == InitDecode /\ [][NextCodec]_vars

---------------------------------------------------------------------------
(* Vocabulary of the properties *)

RowById(d, id) == d.movements[CHOOSE i \in 1..Len(d.movements) : d.movements[i].id = id]

Recorded == last.op = "record" /\ last.ok

MainRow == RowById(db, last.mid)

WashVariant(d) == FindVariant(d, FindProduct(d, LowerName(ECOCUP_WASH_NAME)), 0)

LossVariant(d) == FindVariant(d, FindProduct(d, LowerName(ECOCUP_LOSS_NAME)), 0)

(* quantity of the rows on variant vid that the last operation added beside its main row *)
EmittedQty(vid) ==
    LET F(m) == IF /\ m.id \notin MovementIds(last.pre)
                   /\ m.id # last.mid
                   /\ m.variant_id = vid
                THEN m.qty ELSE 0
    IN  SumRows(db.movements, F)

(* the balances of one client as client_detail shows them *)
ClientBalances(d, c) ==
    LET cd == client_detail(d, c)
    IN  [kegs |-> cd.in_place_total, beer |-> cd.beer_billed_cum,
         deposit |-> cd.deposit_in_play, equipment |-> cd.equipment_totals]

SpecPrice(d, m) == Coalesce(effective_price(m, d.variants[m.variant_id]), 0)

SpecDeposit(m) == Coalesce(m.deposit_per_keg, 0)

---------------------------------------------------------------------------
(* C1 - Reversal symmetry: recording a movement and then deleting it       *)
(* returns the inventory of every variant and every client's balances      *)
(* (kegs in place, beer billed, deposit in play, equipment and cups on     *)
(* loan) to their values before the recording.                             *)
C1_ReversalSymmetry ==
    (last.op = "delete" /\ last.undo) =>
        /\ \A v \in 1..Len(db.variants) : InvQty(db, v) = InvQty(last.base, v)
        /\ \A c \in db.clients : ClientBalances(db, c) = ClientBalances(last.base, c)

(* C2 - Cup billing conservation: an IN or DEFECT recorded for a client    *)
(* who held H cups, with R cups requested as returned, emits a wash fee of *)
(* quantity min(R, H) and a loss fee of quantity H - min(R, H).            *)
C2_CupBillingConservation ==
    (Recorded /\ last.req.type \in {"IN", "DEFECT"}) =>
        LET H == sum_equipment_for_client(last.pre, last.req.client_id)["ecocup"]
            R == last.req.eq["ecocup"]
        IN  /\ EmittedQty(WashVariant(db)) = Min(R, H)
            /\ EmittedQty(LossVariant(db)) = H - Min(R, H)

(* C4 - Inventory effect by type: recording a movement of quantity q on    *)
(* variant v changes Inventory[v] by -q for OUT, +q for FULL and 0 for IN  *)
(* and DEFECT, and leaves the inventory of every other variant unchanged.  *)
C4_InventoryEffectByType ==
    Recorded =>
        LET m == MainRow
            delta == CASE m.type = "OUT" -> 0 - m.qty
                       [] m.type = "FULL" -> m.qty
                       [] OTHER -> 0
        IN  \A v \in 1..Len(db.variants) :
                InvQty(db, v) = InvQty(last.pre, v)
                                  + (IF v = m.variant_id THEN delta ELSE 0)

(* the tables with the movement rows stored in the order p *)
Reordered(d, p) ==
    [d EXCEPT !.movements = [i \in 1..Len(d.movements) |-> d.movements[p[i]]]]

(* C5 - Order independence: for every client the outputs of the balance    *)
(* engine (kegs in place, beer billed, deposit in play, equipment on loan, *)
(* last delivery and last return) are the same for every order in which    *)
(* the stored movements are arranged.                                      *)
C5_OrderIndependence ==
    \A p \in Permutations(1..Len(db.movements)) :
        \A c \in db.clients :
            /\ summarize_client_for_index(Reordered(db, p), c)
                  = summarize_client_for_index(db, c)
            /\ client_detail(Reordered(db, p), c) = client_detail(db, c)

(* a client whose rows are stored against their dates: a delivery and a    *)
(* return each stored before an earlier-dated one of the same type         *)
C5_Witness ==
    \E c \in db.clients :
        LET ms == ClientMovements(db, c)
        IN  /\ \E i, j \in 1..Len(ms) :
                  /\ i < j /\ ms[i].created_at > ms[j].created_at
                  /\ ms[i].type = "OUT" /\ ms[j].type = "OUT"
            /\ \E i \in 1..Len(ms) : ms[i].type \in {"IN", "DEFECT", "FULL"}
            /\ summarize_client_for_index(db, c).last_out # None

(* C3 - Atomic record: the writes of one recording become durable together *)
(* or not at all: while a recording is in flight, after it failed at any   *)
(* step and after it succeeded, the committed tables are either those      *)
(* before the request or those of the complete recording (main movement    *)
(* with the cup fee movements it triggers).                                *)
C3_AtomicRecord ==
    LET pre == IF tx.pc # "idle" THEN tx.pre ELSE last.pre
        req == IF tx.pc # "idle" THEN tx.req ELSE last.req
    IN  (tx.pc # "idle" \/ last.op = "failed" \/ Recorded) =>
            \/ db = pre
            \/ db = movement_new(pre, req).db

(* C6 - Kegs in place: for every client the reported kegs in place equals  *)
(* the OUT quantities minus the IN, DEFECT and FULL quantities, in the     *)
(* card of utils.py and in the client view of app.py alike.                *)
C6_KegsInPlace ==
    \A c \in db.clients :
        LET ms == ClientMovements(db, c)
            kegs == TypeSum(ms, "OUT")
                      - (TypeSum(ms, "IN") + TypeSum(ms, "DEFECT") + TypeSum(ms, "FULL"))
        IN  /\ summarize_client_for_index(db, c).kegs = kegs
            /\ client_detail(db, c).in_place_total = kegs

(* C7 - Beer billed: for every client the cumulative beer billed equals    *)
(* qty x effective price summed over OUT, minus the same over DEFECT and   *)
(* FULL; IN contributes nothing.                                           *)
C7_BeerBilled ==
    \A c \in db.clients :
        LET ms == ClientMovements(db, c)
            F(m) == CASE m.type = "OUT" -> m.qty * SpecPrice(db, m)
                      [] m.type \in {"DEFECT", "FULL"} -> 0 - m.qty * SpecPrice(db, m)
                      [] OTHER -> 0
            beer == SumRows(ms, F)
        IN  /\ client_detail(db, c).beer_billed_cum = beer
            /\ summarize_client_for_index(db, c).beer_eur = beer

(* C8 - Deposit in play: for every client the deposit in play equals       *)
(* qty x effective deposit summed over OUT, minus the same over IN, DEFECT *)
(* and FULL.                                                               *)
C8_DepositInPlay ==
    \A c \in db.clients :
        LET ms == ClientMovements(db, c)
            F(m) == CASE m.type = "OUT" -> m.qty * SpecDeposit(m)
                      [] m.type \in {"IN", "DEFECT", "FULL"} -> 0 - m.qty * SpecDeposit(m)
                      [] OTHER -> 0
            deposit == SumRows(ms, F)
        IN  /\ client_detail(db, c).deposit_in_play = deposit
            /\ summarize_client_for_index(db, c).deposit_eur = deposit

(* the rows of d that the tables before the last operation already held *)
KeptRows == SelectSeq(db.movements, LAMBDA m : m.id \in MovementIds(last.pre))

(* C9 - Write-time defaulting: an OUT recorded with unit_price omitted     *)
(* stores the catalogue price its variant had at that moment; and no later *)
(* operation (a catalogue price change included) changes the effective     *)
(* price of a stored movement or a client's beer billed by it.             *)
C9_WriteTimeDefaulting ==
    /\ (Recorded /\ last.req.type = "OUT" /\ last.req.unit_price_raw = None) =>
          LET vid == MainRow.variant_id
              catalog == IF vid \in 1..Len(last.pre.variants)
                         THEN last.pre.variants[vid].price_ttc
                         ELSE db.variants[vid].price_ttc
          IN  MainRow.unit_price_ttc = catalog
    /\ last.op \in {"record", "delete"} =>
          \A i \in 1..Len(KeptRows) :
              LET m == KeptRows[i]
              IN  /\ SpecPrice(db, m) = SpecPrice(last.pre, RowById(last.pre, m.id))
                  /\ BEER_VALUE_EXPR(m) = BEER_VALUE_EXPR(RowById(last.pre, m.id))

(* the scenario of C10 for client c: OUT qty 1 at price 68 and deposit 30, *)
(* then DEFECT qty 1 of the same catalogue variant (catalogue price still  *)
(* 68), posted by its id with the price and the deposit omitted            *)
DefectScenario(c) ==
    /\ Recorded /\ last.req.client_id = c
    /\ last.pre.variants[KegVariant].price_ttc = Some(6800)
    /\ last.req.type = "DEFECT" /\ last.req.deposit_per_keg = None
    /\ last.req.custom_name = "" /\ last.req.variant_id = KegVariant
    /\ last.req.unit_price_raw = None
    /\ Len(ClientMovements(db, c)) = 2
    /\ LET o == ClientMovements(db, c)[1]
           f == ClientMovements(db, c)[2]
       IN  /\ o.type = "OUT" /\ o.qty = 1 /\ o.variant_id = KegVariant
           /\ o.unit_price_ttc = Some(6800) /\ o.deposit_per_keg = Some(3000)
           /\ f.id = last.mid /\ f.qty = 1 /\ f.variant_id = KegVariant

PlainKegRequest(c, t, q) ==
    /\ Recorded /\ last.req.client_id = c /\ last.req.type = t
    /\ last.req.custom_name = "" /\ last.req.variant_id = KegVariant
    /\ last.req.qty = q
    /\ last.req.unit_price_raw = None /\ last.req.deposit_per_keg = None
    /\ last.pre.variants[KegVariant].price_ttc = Some(6800)

(* first leg of the scenario of C11: the OUT qty 2 is the client's only movement *)
DeliveryLeg(c) ==
    /\ PlainKegRequest(c, "OUT", 2)
    /\ ClientMovements(last.pre, c) = <<>>

(* second leg: the IN qty 1 follows that OUT, the client's only other movement *)
ReturnLeg(c) ==
    /\ PlainKegRequest(c, "IN", 1)
    /\ Len(ClientMovements(last.pre, c)) = 1
    /\ LET o == ClientMovements(last.pre, c)[1]
       IN  /\ o.type = "OUT" /\ o.qty = 2 /\ o.variant_id = KegVariant
           /\ o.unit_price_ttc = Some(6800) /\ o.deposit_per_keg = Some(3000)

(* the three balances of client c, in the client view and on the card alike *)
BalancesAre(c, kegs, beer, deposit) ==
    /\ client_detail(db, c).in_place_total = kegs
    /\ client_detail(db, c).beer_billed_cum = beer
    /\ client_detail(db, c).deposit_in_play = deposit
    /\ summarize_client_for_index(db, c).kegs = kegs
    /\ summarize_client_for_index(db, c).beer_eur = beer
    /\ summarize_client_for_index(db, c).deposit_eur = deposit

(* C11 - Simple delivery/return: for a variant of catalogue price 68 and   *)
(* default deposit 30, OUT qty 2 with no price or deposit gives kegs in    *)
(* place 2, beer billed 136, deposit in play 60; then IN qty 1 with no     *)
(* deposit gives kegs in place 1, deposit in play 30, beer billed 136.     *)
C11_DeliveryReturnScenario ==
    \A c \in db.clients :
        /\ DeliveryLeg(c) => BalancesAre(c, 2, 13600, 6000)
        /\ ReturnLeg(c) => BalancesAre(c, 1, 13600, 3000)

C11_Witness == \E c \in db.clients : ReturnLeg(c)

(* C12 - Codec round-trip: for every mapping of the recognised keys to    *)
(* non-negative integers and every comment without the separator token,   *)
(* unpack_equipment(pack_equipment(comment, counts)) is (counts, comment   *)
(* trimmed), also when all counts are 0 and when the comment is empty.     *)
C12_CodecRoundTrip ==
    tx.pc = "shown" =>
        /\ tx.eq = tx.counts
        /\ tx.human = Strip(tx.comment)

(* a comment with blanks around it and codec punctuation inside, packed    *)
(* with a block of several counts, one of them of two digits               *)
C12_Witness ==
    /\ tx.pc = "shown"
    /\ tx.comment = <<" ", ";", " ">>
    /\ tx.counts["ecocup"] = MaxCount /\ tx.counts["tireuse"] = 1
    /\ Contains(tx.notes, SEP)

(* the alerts computed for variant v *)
AlertsFor(v) == SelectSeq(tx.alerts, LAMBDA a : a.variant = v)

(* C13 - Reorder alerts: the alerts hold an entry for variant v if and     *)
(* only if v has a ReorderRule and Inventory[v].qty < rule.min_qty, one    *)
(* entry per such variant, with shortfall min_qty - qty; for every stock   *)
(* value, negative ones and min_qty = 0 included.                          *)
C13_ReorderAlerts ==
    tx.pc = "alerts" =>
        \A v \in 1..Len(db.variants) :
            IF v \in DOMAIN db.reorder_rules /\ InvQty(db, v) < db.reorder_rules[v]
            THEN /\ Len(AlertsFor(v)) = 1
                 /\ AlertsFor(v)[1].need = db.reorder_rules[v] - InvQty(db, v)
            ELSE AlertsFor(v) = <<>>

(* what the record operation is to accept: a known type, a quantity that  *)
(* is not negative, an existing client and an existing variant             *)
ValidRequest(d, r) ==
    /\ r.type \in MOV_TYPES
    /\ r.qty >= 0
    /\ r.client_id \in d.clients
    /\ r.variant_id \in 1..Len(d.variants)

(* C14 - Validation on record: a request whose type is not OUT, IN, DEFECT *)
(* or FULL, whose quantity is negative, or whose client or variant does    *)
(* not exist is rejected, and a rejected request leaves the stored         *)
(* movements, inventory and catalogue unchanged.                           *)
C14_ValidationOnRecord ==
    /\ Recorded => ValidRequest(last.pre, last.req)
    /\ (last.op = "record" /\ ~last.ok) => db = last.pre

(* the count on loan of kind k the movements of client c add up to: +1    *)
(* for OUT, -1 for IN, DEFECT and FULL, on the counts the codec decodes    *)
OnLoan(d, c, k) ==
    LET F(m) == CASE m.type = "OUT" -> unpack_equipment(m.notes).eq[k]
                  [] m.type \in {"IN", "DEFECT", "FULL"} ->
                        0 - unpack_equipment(m.notes).eq[k]
                  [] OTHER -> 0
    IN  Max(0, SumRows(ClientMovements(d, c), F))

(* C15 - Equipment on loan: in every client-facing view (the dashboard,    *)
(* its cards, the client detail) the count on loan of each equipment kind  *)
(* is max(0, sum of the signed counts decoded from the client's notes);    *)
(* no view shows a negative count.                                         *)
C15_EquipmentOnLoan ==
    \A c \in db.clients :
        /\ \A k \in EqKeySet :
              /\ equipment_by_client(db)[c][k] = OnLoan(db, c, k)
              /\ client_detail(db, c).equipment_totals[k] = OnLoan(db, c, k)
        /\ \A k \in EquipmentKeys :
              summarize_client_for_index(db, c).equipment[k] = OnLoan(db, c, k)

(* the rows the last recording added beside its main movement *)
EmittedRows ==
    SelectSeq(db.movements,
              LAMBDA m : m.id \notin MovementIds(last.pre) /\ m.id # last.mid)

(* the note holds "#" followed by the decimal digits of id and ")" *)
NoteRefersTo(note, id) ==
    \E i \in 1..Len(note) :
        /\ note[i] = "#"
        /\ SubSeq(note, i + 1, Len(note)) = IntToText(id) \o <<")">>

(* C16 - Shape of cup fee movements: every synthetic wash or loss movement *)
(* has type OUT, is on the wash or the loss service variant, has the       *)
(* timestamp of the movement that triggered it, the fixed fee as unit      *)
(* price (0.10 wash, 1.00 loss), deposit 0 and a note that refers to the   *)
(* id of the triggering movement; only IN and DEFECT emit them.            *)
C16_FeeMovementShape ==
    Recorded =>
        /\ EmittedRows # <<>> => last.req.type \in {"IN", "DEFECT"}
        /\ \A i \in 1..Len(EmittedRows) :
              LET m == EmittedRows[i]
              IN  /\ m.type = "OUT"
                  /\ m.client_id = MainRow.client_id
                  /\ m.variant_id \in {WashVariant(db), LossVariant(db)}
                  /\ m.created_at = MainRow.created_at
                  /\ m.unit_price_ttc =
                        Some(IF m.variant_id = WashVariant(db)
                             THEN ECOCUP_WASH_PRICE ELSE ECOCUP_LOSS_PRICE)
                  /\ m.deposit_per_keg = Some(0)
                  /\ m.qty > 0
                  /\ NoteRefersTo(m.notes, last.mid)

(* a return dated after the first date that emitted a wash and a loss fee *)
C16_Witness ==
    /\ Recorded
    /\ MainRow.created_at = MaxTime
    /\ EmittedQty(WashVariant(db)) > 0
    /\ EmittedQty(LossVariant(db)) > 0

(* the clients that own a stored movement or a row of the clients table *)
LedgerClients(d) ==
    d.clients \cup {d.movements[i].client_id : i \in 1..Len(d.movements)}

(* for every client and every variant of size > 0, OUT minus IN and DEFECT *)
(* quantities is not negative                                              *)
KegBalanceNonNegative(d) ==
    \A c \in LedgerClients(d) :
        \A v \in 1..Len(d.variants) :
            d.variants[v].size_l > 0 => InPlaceVariant(d, c, v) >= 0

(* C17 - No over-return of kegs: an IN or DEFECT of quantity > 0 above the *)
(* kegs the client holds of that variant is rejected and stores nothing;   *)
(* so after any sequence of accepted recordings (no deletion), for every   *)
(* client and variant of size > 0, OUT minus IN and DEFECT quantities      *)
(* is >= 0.                                                                *)
C17_NoOverReturn ==
    /\ (Recorded /\ last.req.type \in {"IN", "DEFECT"} /\ last.req.qty > 0) =>
          last.req.qty <= InPlaceVariant(last.pre, last.req.client_id, MainRow.variant_id)
    /\ (last.op = "record" /\ ~last.ok) => db = last.pre
    /\ KegBalanceNonNegative(db)

(* C18 - Deletion preserves the keg balance invariant: after accepted     *)
(* recordings and deletions, for every client and every variant of size    *)
(* > 0, kegs in place (OUT minus IN and DEFECT quantities) is still >= 0.  *)
C18_DeletionKeepsKegBalance ==
    (last.op = "delete" /\ KegBalanceNonNegative(last.pre)) =>
        KegBalanceNonNegative(db)

(* C19 - No check-then-act race on returns: when two return requests (IN   *)
(* or DEFECT) of the same client and variant are served with their steps   *)
(* interleaved, the committed result still has kegs in place >= 0 and      *)
(* non-cup equipment on loan >= 0: the pair cannot jointly return more     *)
(* than was held.                                                          *)
EquipmentHeldNonNegative(d) ==
    \A c \in LedgerClients(d) :
        \A k \in EqKeySet \ {"ecocup"} : EqNet(d, c, k) >= 0

C19_NoRaceOnReturns ==
    (/\ last.op = "race"
     /\ tx.pc = "idle"
     /\ KegBalanceNonNegative(last.pre)
     /\ EquipmentHeldNonNegative(last.pre)) =>
        (KegBalanceNonNegative(db) /\ EquipmentHeldNonNegative(db))

(* C20 - Fee movements do not count as kegs: recording an IN or DEFECT     *)
(* movement that emits cup-wash or cup-loss fee movements changes the      *)
(* client's kegs in place only by the keg quantity of the triggering       *)
(* movement, in every computation of kegs in place: dashboard, client      *)
(* detail, index card, open kegs by variant.                               *)
OpenKegs(d, c, vid) ==
    IF vid \in DOMAIN get_open_kegs_by_variant(d, c)
    THEN get_open_kegs_by_variant(d, c)[vid] ELSE 0

DashboardKegs(d, c) == index_row(d, c).out_qty - index_row(d, c).in_qty

FeesEmitted ==
    /\ Recorded
    /\ last.req.type \in {"IN", "DEFECT"}
    /\ EmittedRows # <<>>

(* the kegs the main movement takes back: its quantity on a variant of size > 0 *)
KegsReturned == IF SizeOf(db, MainRow) > 0 THEN MainRow.qty ELSE 0

C20_FeesAreNotKegs ==
    FeesEmitted =>
        LET c == last.req.client_id
        IN  /\ DashboardKegs(db, c) = DashboardKegs(last.pre, c) - KegsReturned
            /\ client_detail(db, c).in_place_total
                 = client_detail(last.pre, c).in_place_total - KegsReturned
            /\ summarize_client_for_index(db, c).kegs
                 = summarize_client_for_index(last.pre, c).kegs - MainRow.qty
            /\ \A vid \in 1..Len(db.variants) :
                  vid # MainRow.variant_id => OpenKegs(db, c, vid) = OpenKegs(last.pre, c, vid)

(* C21 - A cup return settles the whole cup loan: after an IN or DEFECT    *)
(* movement is recorded for a client who held H > 0 cups, whatever the     *)
(* requested returned count, the client's cups on loan as computed by      *)
(* sum_equipment_for_client is 0.                                          *)
CupsHeld(d, c) == sum_equipment_for_client(d, c)["ecocup"]

C21_CupReturnSettlesLoan ==
    (/\ Recorded
     /\ last.req.type \in {"IN", "DEFECT"}
     /\ CupsHeld(last.pre, last.req.client_id) > 0) =>
        CupsHeld(db, last.req.client_id) = 0

(* C22 - Effective deposit at read time: for every stored movement, the    *)
(* balance engine uses the movement's deposit when it is not null and 0    *)
(* when it is null; it never substitutes the default deposit at read time, *)
(* for any movement type.                                                  *)
DepositSign(m) ==
    CASE m.type = "OUT" -> 1
      [] m.type \in {"IN", "DEFECT"} -> -1
      [] OTHER -> 0

C22_EffectiveDepositAtRead ==
    tx.read # None =>
        LET m == tx.read[1].row
        IN  /\ tx.read[1].effective = Coalesce(m.deposit_per_keg, 0)
            /\ tx.read[1].value = DepositSign(m) * m.qty * Coalesce(m.deposit_per_keg, 0)

(* C23 - Movement immutability: once a movement has been created, none of  *)
(* its fields (type, client, variant, quantity, unit price, deposit,       *)
(* timestamp, note) is changed by any later operation or by application    *)
(* start-up; a stored movement can only be deleted.                        *)
C23_MovementImmutability ==
    [][\A i \in 1..Len(db.movements) :
          \A j \in 1..Len(db'.movements) :
              db.movements[i].id = db'.movements[j].id =>
                  db.movements[i] = db'.movements[j]]_vars

(* C24 - Quantity invariant: in every reachable state, every stored        *)
(* movement with quantity 0 references a placeholder variant (size 0) and  *)
(* carries equipment or cup counts, every stored movement on a physical    *)
(* keg variant (size > 0) has quantity > 0, and no stored movement has a   *)
(* negative quantity.                                                      *)
CarriesEquipment(m) == \E k \in EqKeySet : unpack_equipment(m.notes).eq[k] > 0

QuantityRule(d, m) ==
    /\ m.qty >= 0
    /\ m.qty = 0 => (SizeOf(d, m) = 0 /\ CarriesEquipment(m))
    /\ SizeOf(d, m) > 0 => m.qty > 0

C24_QuantityInvariant ==
    \A i \in 1..Len(db.movements) : QuantityRule(db, db.movements[i])

(* C25 - Catalog uniqueness: after any sequence of find-or-create          *)
(* operations (off-catalog reference in movement_new, equipment            *)
(* placeholder, cup service variants, seeding), no two products have names *)
(* that are equal ignoring case and no two variants share the same         *)
(* (product, size) pair; a find-or-create call with a name differing only  *)
(* in case from an existing product reuses that product.                   *)
SameNameIgnoringCase(a, b) == LowerName(a) = LowerName(b)

C25_CatalogUniqueness ==
    /\ \A i, j \in 1..Len(db.products) :
          i # j => ~SameNameIgnoringCase(db.products[i].name, db.products[j].name)
    /\ \A i, j \in 1..Len(db.variants) :
          i # j => \/ db.variants[i].product_id # db.variants[j].product_id
                   \/ db.variants[i].size_l # db.variants[j].size_l
    /\ (/\ Recorded
        /\ last.req.custom_name # ""
        /\ \E i \in 1..Len(last.pre.products) :
              SameNameIgnoringCase(last.pre.products[i].name, last.req.custom_name)) =>
           Len(db.products) = Len(last.pre.products)

(* C26 - Dashboard and detail agree: for every client and every movement   *)
(* history, the per-client dashboard summary reports the same kegs in      *)
(* place, beer billed, deposit in play and equipment on loan as the client *)
(* detail view of that client: the card and the detail of utils.py agree,  *)
(* and the index row and the client page of app.py agree.                  *)
CardAgreesWithDetail(d, c) ==
    /\ summarize_client_for_index(d, c).kegs = summarize_client_detail(d, c).kegs
    /\ summarize_client_for_index(d, c).beer_eur = summarize_client_detail(d, c).beer_eur
    /\ summarize_client_for_index(d, c).deposit_eur = summarize_client_detail(d, c).deposit_eur
    /\ summarize_client_for_index(d, c).equipment = summarize_client_detail(d, c).equipment

IndexAgreesWithPage(d, c) ==
    /\ index_row(d, c).out_qty - index_row(d, c).in_qty = client_detail(d, c).in_place_total
    /\ index_row(d, c).beer_billed_cum = client_detail(d, c).beer_billed_cum
    /\ index_row(d, c).deposit_in_play = client_detail(d, c).deposit_in_play
    /\ equipment_by_client(d)[c] = client_detail(d, c).equipment_totals

C27_DecodersAgree ==
    tx.pc \in {"stored", "shown"} =>
        \A k \in EquipmentKeys :
            parse_equipment(tx.notes)[k] = unpack_equipment(tx.notes).eq[k]

(* C28 - Read operations are pure: computing the stock items or the        *)
(* reorder alerts (as computing a client balance or the index cards)       *)
(* creates, modifies and deletes no stored row (movements, inventory,      *)
(* reorder rules, catalog); the stored state after the call equals the     *)
(* stored state before it.                                                 *)
C28_ReadsArePure ==
    [][(tx.pc = "stock" /\ tx'.pc = "alerts") => db' = db]_vars

(* C29 - Decoder tolerance: pack_equipment omits every key whose count is  *)
(* 0; unpack_equipment returns 0 for every recognized key absent from the  *)
(* note, ignores pairs whose key is not recognized, returns 0 for a        *)
(* recognized key whose value is not an integer, and fails on no note      *)
(* text: a null or empty note, or a note with no structured block, decodes *)
(* to all-zero counts and the trimmed text.                                *)
(* what the pairs of a block say of key k: the value of the last pair      *)
(* whose key is k in any letter case, 0 when that value is no integer or   *)
(* when no pair names k                                                    *)
SaidOf(raw, k) ==
    LET hits == {i \in 1..Len(raw.pairs) : LowerTok(raw.pairs[i].key) = k}
    IN  IF hits = {} THEN 0
        ELSE Coalesce(raw.pairs[CHOOSE i \in hits : \A j \in hits : j <= i].val.num, 0)

QtyIn(inventory, v) == IF v \in DOMAIN inventory THEN inventory[v] ELSE 0

C30_ReverseIsInverse ==
    /\ tx.pc = "stock" /\ tx.op.base # None =>
          /\ \A v \in DOMAIN tx.op.base[1] : db.inventory[v] = tx.op.base[1][v]
          /\ \A v \in DOMAIN db.inventory : QtyIn(tx.op.base[1], v) = db.inventory[v]
    /\ tx.pc = "stock" /\ tx.op.mtype = UnknownType => db.inventory = tx.op.pre

(* an OUT of 3 undone on a variant whose stock was not 0, and the reverse  *)
(* of an IN followed by the IN                                             *)
C30_Witness ==
    /\ tx.pc = "stock"
    /\ tx.op.base # None
    /\ tx.op.kind = "reverse"
    /\ tx.op.mtype = "OUT"
    /\ tx.op.qty = 3
    /\ QtyIn(tx.op.base[1], tx.op.variant_id) # 0

C30_WitnessReverseFirst ==
    /\ tx.pc = "stock"
    /\ tx.op.base # None
    /\ tx.op.kind = "effect"
    /\ tx.op.mtype = "IN"

=============================================================================
